---- MODULE Spec2Model ----
(***************************************************************************)
(* Model of the face-recognition experiment utilities:                     *)
(*   - result_database_creation.py  (Results Aggregator, batch loop)       *)
(*   - dataset_creation.py          (Filename Classifier)                  *)
(* Text is modelled as sequences of one-character strings so that          *)
(* lower-casing, stripping, substring and prefix tests are computed.       *)
(* Reaction times are integers (milliseconds); means and percentages are   *)
(* exact fractions [num, den].  A sequence built by a function constructor *)
(* is written f \o <<>>, which is the same sequence held as a tuple.        *)
(***************************************************************************)
EXTENDS Integers, Sequences, FiniteSets, TLC

\* ------------------------------------------------------------------------
\* Bounds of the model
\* ------------------------------------------------------------------------
MaxFiles == 2
MaxRows == 11
MaxEntries == 3
MaxTokens == 3

\* ------------------------------------------------------------------------
\* Text helpers (Python str methods)
\* ------------------------------------------------------------------------
UpperChars == <<"A","B","C","D","E","F","G","H","I","J","K","L","M",
                "N","O","P","Q","R","S","T","U","V","W","X","Y","Z">>
LowerChars == <<"a","b","c","d","e","f","g","h","i","j","k","l","m",
                "n","o","p","q","r","s","t","u","v","w","x","y","z">>
DigitChars == <<"0","1","2","3","4","5","6","7","8","9">>

OtherChars == <<" ", "-", "_", ".", ":", "/">>

IndexIn(c, chars) ==
  IF \E k \in 1..Len(chars) : chars[k] = c
    THEN CHOOSE k \in 1..Len(chars) : chars[k] = c
    ELSE 0

\* the lower-case form of every character of the model's alphabet
LowerMap ==
  [c \in {UpperChars[k] : k \in 1..26} \cup {LowerChars[k] : k \in 1..26}
         \cup {DigitChars[k] : k \in 1..10} \cup {OtherChars[k] : k \in 1..Len(OtherChars)} |->
     IF IndexIn(c, UpperChars) > 0 THEN LowerChars[IndexIn(c, UpperChars)] ELSE c]

\* str.lower()
Lower(s) == [k \in 1..Len(s) |-> LowerMap[s[k]]] \o <<>>

\* number of leading blanks of s[k..]
RECURSIVE LeadingBlanks(_, _)
LeadingBlanks(s, k) ==
  IF k > Len(s) \/ s[k] # " " THEN 0 ELSE 1 + LeadingBlanks(s, k + 1)

\* number of trailing blanks of s[..k]
RECURSIVE TrailingBlanks(_, _)
TrailingBlanks(s, k) ==
  IF k < 1 \/ s[k] # " " THEN 0 ELSE 1 + TrailingBlanks(s, k - 1)

\* str.strip() for blanks
Strip(s) ==
  IF LeadingBlanks(s, 1) = Len(s) THEN <<>>
  ELSE SubSeq(s, 1 + LeadingBlanks(s, 1), Len(s) - TrailingBlanks(s, Len(s)))

\* needle in s
Contains(s, needle) ==
  \E k \in 1..(Len(s) - Len(needle) + 1) :
    \A j \in 1..Len(needle) : s[k + j - 1] = needle[j]

\* s.startswith(p)
StartsWith(s, p) == Len(s) >= Len(p) /\ SubSeq(s, 1, Len(p)) = p

\* s.endswith(p)
EndsWith(s, p) == Len(s) >= Len(p) /\ SubSeq(s, Len(s) - Len(p) + 1, Len(s)) = p

\* os.path.splitext(name)[0]: cut at the last dot, unless that dot leads the name
SplitExtStem(name) ==
  LET dots == {k \in 1..Len(name) : name[k] = "."}
      last == CHOOSE k \in dots : \A j \in dots : j <= k
  IN IF dots = {} THEN name
     ELSE IF \A j \in 1..last : name[j] = "." THEN name
     ELSE SubSeq(name, 1, last - 1)

\* ------------------------------------------------------------------------
\* Cells of a data frame: a number, a missing value (NaN), a string, a bool
\* ------------------------------------------------------------------------
Num(n) == [k |-> "num", n |-> n, s |-> <<>>]
NA == [k |-> "na", n |-> 0, s |-> <<>>]
Str(s) == [k |-> "str", n |-> 0, s |-> s]
Bool(b) == [k |-> "bool", n |-> IF b THEN 1 ELSE 0, s |-> <<>>]

DigitSet == {DigitChars[k] : k \in 1..10}

IsDigits(s) == Len(s) > 0 /\ \A k \in 1..Len(s) : s[k] \in DigitSet

RECURSIVE DigitsValue(_)
DigitsValue(s) ==
  IF Len(s) = 0 THEN 0
  ELSE 10 * DigitsValue(SubSeq(s, 1, Len(s) - 1)) + (IndexIn(s[Len(s)], DigitChars) - 1)

\* pd.to_numeric(x, errors="coerce") on one cell
ToNumeric(c) ==
  CASE c.k = "num" -> c
    [] c.k = "bool" -> Num(c.n)
    [] c.k = "str" -> IF IsDigits(Strip(c.s)) THEN Num(DigitsValue(Strip(c.s))) ELSE NA
    [] OTHER -> NA

RECURSIVE DigitsOf(_)
DigitsOf(n) == IF n < 10 THEN <<DigitChars[n + 1]>> ELSE DigitsOf(n \div 10) \o <<DigitChars[(n % 10) + 1]>>

\* str(x) on one cell
PyStr(c) ==
  CASE c.k = "num" -> DigitsOf(c.n)
    [] c.k = "bool" -> IF c.n = 1 THEN <<"T","r","u","e">> ELSE <<"F","a","l","s","e">>
    [] c.k = "str" -> c.s
    [] OTHER -> <<"n","a","n">>

\* _lower(s) = str(s).strip().lower()
LowerStr(c) == Lower(Strip(PyStr(c)))

\* ------------------------------------------------------------------------
\* Results Aggregator: constants of result_database_creation.py
\* ------------------------------------------------------------------------
cols_to_remove ==
  <<<<"t","h","i","s","R","o","w",".","t">>,
    <<"n","o","t","e","s">>,
    <<"r","e","s","p","_","k","e","y">>,
    <<"m","i","s","s","i","n","g","_","f","i","l","e">>,
    <<"p","a","r","t","i","c","i","p","a","n","t">>,
    <<"s","e","s","s","i","o","n">>>>

db_candidates ==
  <<<<"d","a","t","a","b","a","s","e">>,
    <<"d","b">>,
    <<"s","o","u","r","c","e">>,
    <<"s","t","i","m","_","d","a","t","a","b","a","s","e">>,
    <<"f","a","c","e","_","d","a","t","a","b","a","s","e">>,
    <<"s","e","t">>,
    <<"d","a","t","a","s","e","t">>>>

emo_candidates ==
  <<<<"e","m","o","t","i","o","n">>,
    <<"e","x","p","r","e","s","s","i","o","n">>,
    <<"v","a","l","e","n","c","e">>,
    <<"m","o","o","d">>,
    <<"a","f","f","e","c","t">>>>

corr_candidates ==
  <<<<"c","o","r","r","e","c","t">>,
    <<"c","o","r","r">>,
    <<"a","c","c","u","r","a","c","y">>,
    <<"r","e","s","p","_","c","o","r","r">>,
    <<"r","e","s","p","o","n","s","e","_","c","o","r","r">>,
    <<"k","e","y","_","r","e","s","p",".","c","o","r","r">>,
    <<"r","e","s","p",".","c","o","r","r">>,
    <<"t","r","i","a","l","_","c","o","r","r">>>>

T_rt == <<"r","t">>
T_rt_outlier == <<"r","t","_","o","u","t","l","i","e","r">>
T_Unnamed == <<"U","n","n","a","m","e","d">>
T_ai == <<"a","i">>
T_non_ai == <<"n","o","n","-","a","i">>
T_nonai == <<"n","o","n","a","i">>
T_real == <<"r","e","a","l">>
T_human == <<"h","u","m","a","n">>
T_happy == <<"h","a","p","p","y">>
T_sad == <<"s","a","d">>
T_true == <<"t","r","u","e">>
T_false == <<"f","a","l","s","e">>
T_csv == <<".","c","s","v">>

\* "no column" (Python None) for a column name
NoneCol == <<>>

\* A data frame is a sequence of columns [name, dtype, cells]; every column
\* of a frame has the same number of cells.
NRows(df) == IF Len(df.cols) = 0 THEN 0 ELSE Len(df.cols[1].cells)

InSeq(x, seq) == \E k \in 1..Len(seq) : seq[k] = x

\* c in df.columns
HasCol(df, name) == \E k \in 1..Len(df.cols) : df.cols[k].name = name

\* df[name]
Col(df, name) == df.cols[CHOOSE k \in 1..Len(df.cols) : df.cols[k].name = name]

\* positions kept by a boolean mask, in order
RECURSIVE KeepIdx(_, _)
KeepIdx(mask, k) ==
  IF k > Len(mask) THEN <<>>
  ELSE (IF mask[k] THEN <<k>> ELSE <<>>) \o KeepIdx(mask, k + 1)

\* cells[mask]
FilterCells(cells, mask) ==
  LET idx == KeepIdx(mask, 1) IN [j \in 1..Len(idx) |-> cells[idx[j]]] \o <<>>

\* df[mask]
FilterRows(df, mask) ==
  [cols |-> [c \in 1..Len(df.cols) |->
      [df.cols[c] EXCEPT !.cells = FilterCells(df.cols[c].cells, mask)]] \o <<>>]

\* the columns at the positions in keep, in order
RECURSIVE KeepCols(_, _, _)
KeepCols(cols, keep, k) ==
  IF k > Len(cols) THEN <<>>
  ELSE (IF k \in keep THEN <<cols[k]>> ELSE <<>>) \o KeepCols(cols, keep, k + 1)

\* lines 71-75: drop the bookkeeping columns and the "Unnamed..." columns
DropColumns(df) ==
  [cols |-> KeepCols(df.cols,
                     {c \in 1..Len(df.cols) :
                        /\ ~InSeq(df.cols[c].name, cols_to_remove)
                        /\ ~StartsWith(df.cols[c].name, T_Unnamed)},
                     1)]

\* df.drop(columns=[name]) for a column that may be absent
DropCol(df, name) ==
  [cols |-> KeepCols(df.cols, {c \in 1..Len(df.cols) : df.cols[c].name # name}, 1)]

\* df[name] = cells (numeric dtype), in place when the column exists
SetNumCol(df, name, cells) ==
  [cols |-> [c \in 1..Len(df.cols) |->
      IF df.cols[c].name = name
        THEN [name |-> name, dtype |-> "num", cells |-> cells]
        ELSE df.cols[c]] \o <<>>]

\* pd.to_numeric(series, errors="coerce")
ToNumericCells(cells) == [k \in 1..Len(cells) |-> ToNumeric(cells[k])] \o <<>>

\* ------------------------------------------------------------------------
\* lines 78-104: IQR outlier flag
\* ------------------------------------------------------------------------
\* k-th smallest (k from 0) of a non-empty sequence of integers
OrderStat(vals, k) ==
  CHOOSE v \in {vals[i] : i \in 1..Len(vals)} :
    /\ Cardinality({i \in 1..Len(vals) : vals[i] < v}) <= k
    /\ k < Cardinality({i \in 1..Len(vals) : vals[i] <= v})

\* 4 * Series.quantile(q/4) with linear interpolation, q in {1, 3}
Quantile4(vals, q) ==
  LET pos == q * (Len(vals) - 1)
      j == pos \div 4
      r == pos % 4
  IN IF r = 0 THEN 4 * OrderStat(vals, j)
     ELSE (4 - r) * OrderStat(vals, j) + r * OrderStat(vals, j + 1)

\* minimum number of valid reaction times for the IQR test (line 91)
MinValidForIQR == 4

\* RtOutlier with the IQR comparisons made non-strict
RtOutlier_NonStrict(rt) ==
  LET missing_rt == [k \in 1..Len(rt) |-> rt[k].k = "na"]
      valid_cells == FilterCells(rt, [k \in 1..Len(rt) |-> ~missing_rt[k]])
      valid_rt == [k \in 1..Len(valid_cells) |-> valid_cells[k].n] \o <<>>
      Q1x4 == Quantile4(valid_rt, 1)
      Q3x4 == Quantile4(valid_rt, 3)
      IQRx4 == Q3x4 - Q1x4
      lower_bound8 == 2 * Q1x4 - 3 * IQRx4
      upper_bound8 == 2 * Q3x4 + 3 * IQRx4
      iqr_outliers == [k \in 1..Len(rt) |->
          IF Len(valid_rt) >= 4
            THEN rt[k].k = "num" /\ (8 * rt[k].n <= lower_bound8 \/ 8 * rt[k].n >= upper_bound8)
            ELSE FALSE]
  IN [k \in 1..Len(rt) |-> missing_rt[k] \/ iqr_outliers[k]] \o <<>>

\* df["rt_outlier"] of lines 83-104, from the coerced rt cells
RtOutlier(rt) ==
  LET missing_rt == [k \in 1..Len(rt) |-> rt[k].k = "na"]
      valid_cells == FilterCells(rt, [k \in 1..Len(rt) |-> ~missing_rt[k]])
      valid_rt == [k \in 1..Len(valid_cells) |-> valid_cells[k].n] \o <<>>
      Q1x4 == Quantile4(valid_rt, 1)
      Q3x4 == Quantile4(valid_rt, 3)
      IQRx4 == Q3x4 - Q1x4
      lower_bound8 == 2 * Q1x4 - 3 * IQRx4
      upper_bound8 == 2 * Q3x4 + 3 * IQRx4
      iqr_outliers == [k \in 1..Len(rt) |->
          IF Len(valid_rt) >= MinValidForIQR
            THEN rt[k].k = "num" /\ (8 * rt[k].n < lower_bound8 \/ 8 * rt[k].n > upper_bound8)
            ELSE FALSE]
  IN [k \in 1..Len(rt) |-> missing_rt[k] \/ iqr_outliers[k]] \o <<>>

CountTrue(mask) == Cardinality({k \in 1..Len(mask) : mask[k]})

\* threshold of line 111, in percent
OutlierPctLimit == 10

\* TooManyOutliers with the threshold test made non-strict
TooManyOutliers_AtLeast(mask) ==
  Len(mask) > 0 /\ 100 * CountTrue(mask) >= 10 * Len(mask)

\* outlier_pct > 10 (line 111); the mean of an empty column is NaN, and
\* NaN > 10 is false
TooManyOutliers(mask) ==
  Len(mask) > 0 /\ 100 * CountTrue(mask) > OutlierPctLimit * Len(mask)

\* ------------------------------------------------------------------------
\* lines 23-63: column identification and correctness coercion
\* ------------------------------------------------------------------------
\* pick_column: first candidate whose lower-cased name is a lower-cased
\* column name; the dict keeps the last column of that lowered name
pick_column(df, candidates) ==
  LET hit(k) == \E c \in 1..Len(df.cols) : Lower(df.cols[c].name) = Lower(candidates[k])
      hits == {k \in 1..Len(candidates) : hit(k)}
      first == CHOOSE k \in hits : \A j \in hits : k <= j
      same == {c \in 1..Len(df.cols) : Lower(df.cols[c].name) = Lower(candidates[first])}
      last == CHOOSE c \in same : \A d \in same : d <= c
  IN IF hits = {} THEN NoneCol ELSE df.cols[last].name

\* df[c].dropna().astype(str).map(_lower).unique(), as a set
LowerVals(col) == {LowerStr(col.cells[k]) : k \in {j \in 1..Len(col.cells) : col.cells[j].k # "na"}}

IsDatabaseLike(col) ==
  /\ \E v \in LowerVals(col) : Contains(v, T_ai)
  /\ \E v \in LowerVals(col) : Contains(v, T_non_ai) \/ Contains(v, T_nonai)

IsEmotionLike(col) ==
  /\ \E v \in LowerVals(col) : Contains(v, T_happy)
  /\ \E v \in LowerVals(col) : Contains(v, T_sad)

\* name of the first column among the positions ok, or None
FirstCol(df, ok) ==
  IF ok = {} THEN NoneCol ELSE df.cols[CHOOSE c \in ok : \A d \in ok : c <= d].name

\* positions of the object columns of the frame
ObjCols(df) == {c \in 1..Len(df.cols) : df.cols[c].dtype = "object"}

\* infer_condition_columns: (database_col, emotion_col)
infer_condition_columns(df) ==
  <<FirstCol(df, {c \in ObjCols(df) : IsDatabaseLike(df.cols[c])}),
    FirstCol(df, {c \in ObjCols(df) : IsEmotionLike(df.cols[c])})>>

\* coerce_correct_series: the boolean series, None, or the exception that
\* s_num.astype(int) raises when s_num holds a NaN
coerce_correct_series(s) ==
  LET s_num == ToNumericCells(s.cells)
      numvals == {s_num[k].n : k \in {j \in 1..Len(s_num) : s_num[j].k = "num"}}
      s_str == [k \in 1..Len(s.cells) |-> LowerStr(s.cells[k])]
  IN IF s.dtype = "bool"
       THEN [tag |-> "series", vals |-> [k \in 1..Len(s.cells) |-> s.cells[k].n = 1]]
     ELSE IF numvals # {} /\ numvals \subseteq {0, 1}
       THEN IF \E k \in 1..Len(s_num) : s_num[k].k = "na"
              THEN [tag |-> "raise", vals |-> <<>>]
              ELSE [tag |-> "series", vals |-> [k \in 1..Len(s_num) |-> s_num[k].n # 0]]
     ELSE IF \A k \in 1..Len(s_str) : s_str[k] \in {T_true, T_false}
       THEN [tag |-> "series", vals |-> [k \in 1..Len(s_str) |-> s_str[k] = T_true]]
     ELSE [tag |-> "none", vals |-> <<>>]

\* ------------------------------------------------------------------------
\* lines 160-193: value normalisation and per-condition metrics
\* ------------------------------------------------------------------------
\* normalize_database with the "ai" test made first
normalize_database_AiFirst(x) ==
  IF Contains(x, T_ai) THEN "ai"
  ELSE IF Contains(x, T_non_ai) \/ Contains(x, T_nonai) \/ Contains(x, T_real) \/ Contains(x, T_human)
    THEN "non-ai"
  ELSE "None"

normalize_database(x) ==
  IF Contains(x, T_non_ai) \/ Contains(x, T_nonai) \/ Contains(x, T_real) \/ Contains(x, T_human)
    THEN "non-ai"
  ELSE IF Contains(x, T_ai) THEN "ai"
  ELSE "None"

normalize_emotion(x) ==
  IF Contains(x, T_sad) THEN "sad"
  ELSE IF Contains(x, T_happy) THEN "happy"
  ELSE "None"

\* a metric is NaN or the exact fraction num/den
NaN == [nan |-> TRUE, num |-> 0, den |-> 1]
Frac(num, den) == [nan |-> FALSE, num |-> num, den |-> den]

RECURSIVE SumOver(_, _)
SumOver(f, S) ==
  IF S = {} THEN 0 ELSE LET k == CHOOSE x \in S : TRUE IN f[k] + SumOver(f, S \ {k})

DbLabels == {"ai", "non-ai"}
EmoLabels == {"sad", "happy"}
Conditions == DbLabels \X EmoLabels

\* compute_metrics with a mask that ignores the emotion label
compute_metrics_AnyEmotion(df, db_cat, emo_cat, correct_bool, db_label, emo_label) ==
  LET mask == {k \in 1..NRows(df) : db_cat[k] = db_label}
      rt == Col(df, T_rt).cells
      valid == {k \in mask : rt[k].k = "num"}
      avg_rt == IF HasCol(df, T_rt) /\ valid # {}
                  THEN Frac(SumOver([k \in 1..NRows(df) |-> rt[k].n], valid), Cardinality(valid))
                  ELSE NaN
      acc == IF correct_bool.tag = "series" /\ mask # {}
               THEN Frac(100 * Cardinality({k \in mask : correct_bool.vals[k]}), Cardinality(mask))
               ELSE NaN
  IN [avg_rt |-> avg_rt, accuracy_pct |-> acc]

\* compute_metrics(db_label, emo_label) -> (avg_rt, acc)
compute_metrics(df, db_cat, emo_cat, correct_bool, db_label, emo_label) ==
  LET mask == {k \in 1..NRows(df) : db_cat[k] = db_label /\ emo_cat[k] = emo_label}
      rt == Col(df, T_rt).cells
      valid == {k \in mask : rt[k].k = "num"}
      avg_rt == IF HasCol(df, T_rt) /\ valid # {}
                  THEN Frac(SumOver([k \in 1..NRows(df) |-> rt[k].n], valid), Cardinality(valid))
                  ELSE NaN
      acc == IF correct_bool.tag = "series" /\ mask # {}
               THEN Frac(100 * Cardinality({k \in mask : correct_bool.vals[k]}), Cardinality(mask))
               ELSE NaN
  IN [avg_rt |-> avg_rt, accuracy_pct |-> acc]

\* the row as initialised at lines 121-131
EmptyRow(filename) ==
  [database_name |-> SplitExtStem(filename),
   m |-> [c \in Conditions |-> [avg_rt |-> NaN, accuracy_pct |-> NaN]]]

\* ------------------------------------------------------------------------
\* lines 69-198: the body of the per-file loop, in its three stages
\* ------------------------------------------------------------------------
NoSeries == [tag |-> "none", vals |-> <<>>]

\* OutlierStep whose removal keeps the rows with a missing reaction time
OutlierStep_KeepsMissing(df0) ==
  LET df1 == DropColumns(df0)
      hasRt == HasCol(df1, T_rt)
      rt == ToNumericCells(Col(df1, T_rt).cells)
      rt_outlier == IF hasRt THEN RtOutlier(rt) ELSE <<>>
      skip == hasRt /\ TooManyOutliers(rt_outlier)
  IN [rt_outlier |-> rt_outlier,
      skip |-> skip,
      df |-> IF hasRt /\ ~skip
               THEN DropCol(FilterRows(SetNumCol(df1, T_rt, rt),
                                       [k \in 1..Len(rt_outlier) |->
                                          ~rt_outlier[k] \/ rt[k].k = "na"]),
                            T_rt_outlier)
               ELSE df1]

\* lines 71-118: column pruning, outlier flag, threshold test, outlier removal
OutlierStep(df0) ==
  LET df1 == DropColumns(df0)
      hasRt == HasCol(df1, T_rt)
      rt == ToNumericCells(Col(df1, T_rt).cells)
      rt_outlier == IF hasRt THEN RtOutlier(rt) ELSE <<>>
      skip == hasRt /\ TooManyOutliers(rt_outlier)
  IN [rt_outlier |-> rt_outlier,
      skip |-> skip,
      df |-> IF hasRt /\ ~skip
               THEN DropCol(FilterRows(SetNumCol(df1, T_rt, rt),
                                       [k \in 1..Len(rt_outlier) |-> ~rt_outlier[k]]),
                            T_rt_outlier)
               ELSE df1]

\* lines 136-155: correctness column and its coercion
CorrectBool(df) ==
  LET corr_col == pick_column(df, corr_candidates)
  IN IF corr_col = NoneCol THEN NoSeries ELSE coerce_correct_series(Col(df, corr_col))

\* lines 134-146: (database_col, emotion_col)
ConditionColumns(df) ==
  LET picked_db == pick_column(df, db_candidates)
      picked_emo == pick_column(df, emo_candidates)
      inferred == infer_condition_columns(df)
  IN IF picked_db # NoneCol /\ picked_emo # NoneCol THEN <<picked_db, picked_emo>>
     ELSE <<IF picked_db = NoneCol THEN inferred[1] ELSE picked_db,
            IF picked_emo = NoneCol THEN inferred[2] ELSE picked_emo>>

\* lines 160-179: (db_cat, emo_cat), the normalised labels of the rows
ConditionCats(df, cc) ==
  LET raw_db == Col(df, cc[1]).cells
      raw_emo == Col(df, cc[2]).cells
  IN IF cc[1] = NoneCol \/ cc[2] = NoneCol THEN <<<<>>, <<>>>>
     ELSE <<[k \in 1..NRows(df) |-> normalize_database(LowerStr(raw_db[k]))] \o <<>>,
            [k \in 1..NRows(df) |-> normalize_emotion(LowerStr(raw_emo[k]))] \o <<>>>>

\* lines 120-193: the summary row of a file that is not skipped
SummaryRow(filename, df, cc, cats, correct_bool) ==
  IF cc[1] = NoneCol \/ cc[2] = NoneCol
    THEN EmptyRow(filename)
    ELSE [database_name |-> SplitExtStem(filename),
          m |-> [c \in Conditions |->
                   compute_metrics(df, cats[1], cats[2], correct_bool, c[1], c[2])]]

NoLocals ==
  [filename |-> <<>>, outcome |-> "none", rt_outlier |-> <<>>,
   database_col |-> NoneCol, emotion_col |-> NoneCol, correct_bool |-> NoSeries,
   db_cat |-> <<>>, emo_cat |-> <<>>]

\* ------------------------------------------------------------------------
\* State
\* ------------------------------------------------------------------------
VARIABLES
  listing,        \* os.listdir(results_folder), in the order it is returned
  dir,            \* the session files as they were before the run
  disk,           \* the session files now
  i,              \* position of the loop in listing
  pc,             \* "loop", "save", "done" or "raised" (uncaught exception)
  summary_rows,   \* the list summary_rows
  summary_file,   \* rows of summary_database.csv, <<>> while it is not written
  io,             \* the writes done so far, in order
  loc,            \* locals of the last loop iteration
  image_folder,   \* IMAGE_FOLDER: whether it exists, and its entries
  cpc,            \* Filename Classifier: "start", "rows", "done" or "notfound"
  todo,           \* sorted(os.listdir(IMAGE_FOLDER))
  ci,             \* position of the classifier's loop in todo
  manifest,       \* lines of brain_study_metadata.csv, <<>> while it does not exist
  trials_rows,    \* Session Runner: the shuffled, truncated list of trials
  images,         \* the file names present in IMAGE_DIR
  participant,    \* the person at the keyboard: possible key times, lapses allowed
  rpc,            \* Session Runner: "idle", "trial", "ended" or "saved"
  t_idx,          \* index of the trial the loop is at, from 1
  keys,           \* the last return of event.waitKeys and the trial it was for
  log,            \* entries of the ExperimentHandler, one per nextEntry()
  session_csv     \* the table saved by saveAsWideText, as pd.read_csv reads it

aggVars == <<listing, dir, disk, i, pc, summary_rows, summary_file, io, loc>>
clsVars == <<image_folder, cpc, todo, ci, manifest>>
runVars == <<trials_rows, images, participant, rpc, t_idx, keys, log, session_csv>>
vars == <<aggVars, clsVars, runVars>>

\* the Session Runner is not running
NoKeys == [trial |-> 0, got |-> <<>>]
RunnerIdle ==
  /\ trials_rows = <<>>
  /\ images = {}
  /\ participant = [times |-> <<>>, patience |-> 0]
  /\ rpc = "idle"
  /\ t_idx = 0
  /\ keys = NoKeys
  /\ log = <<>>
  /\ session_csv = [cols |-> <<>>]

\* ------------------------------------------------------------------------
\* Actions of the Results Aggregator
\* ------------------------------------------------------------------------
\* line 66: an entry whose name does not end with ".csv" is passed over
IgnoreEntry ==
  /\ pc = "loop" /\ i <= Len(listing)
  /\ ~EndsWith(listing[i], T_csv)
  /\ i' = i + 1
  /\ UNCHANGED <<clsVars, runVars>>
  /\ UNCHANGED <<listing, dir, disk, pc, summary_rows, summary_file, io, loc>>

\* lines 110-113: too many outliers, continue with the next entry
SkipFile ==
  /\ pc = "loop" /\ i <= Len(listing)
  /\ EndsWith(listing[i], T_csv)
  /\ LET o == OutlierStep(disk[listing[i]]) IN
       /\ o.skip
       /\ loc' = [NoLocals EXCEPT !.filename = listing[i], !.outcome = "skip",
                                  !.rt_outlier = o.rt_outlier]
  /\ i' = i + 1
  /\ UNCHANGED <<clsVars, runVars>>
  /\ UNCHANGED <<listing, dir, disk, pc, summary_rows, summary_file, io>>

\* CleanFile that appends no row when the condition columns are not identified
CleanFile_DropsUnidentified ==
  /\ pc = "loop" /\ i <= Len(listing)
  /\ EndsWith(listing[i], T_csv)
  /\ LET o == OutlierStep(disk[listing[i]])
         correct_bool == CorrectBool(o.df)
         cc == ConditionColumns(o.df)
         cats == ConditionCats(o.df, cc)
         row == SummaryRow(listing[i], o.df, cc, cats, correct_bool)
     IN
       /\ ~o.skip
       /\ correct_bool.tag # "raise"
       /\ loc' = [filename |-> listing[i], outcome |-> "ok", rt_outlier |-> o.rt_outlier,
                  database_col |-> cc[1], emotion_col |-> cc[2],
                  correct_bool |-> correct_bool,
                  db_cat |-> cats[1], emo_cat |-> cats[2]]
       /\ summary_rows' = IF cc[1] = NoneCol \/ cc[2] = NoneCol
                            THEN summary_rows ELSE Append(summary_rows, row)
       /\ disk' = [disk EXCEPT ![listing[i]] = o.df]
       /\ io' = Append(io, [op |-> "to_csv", file |-> listing[i]])
  /\ i' = i + 1
  /\ UNCHANGED <<clsVars, runVars>>
  /\ UNCHANGED <<listing, dir, pc, summary_file>>

\* lines 120-200: summary row appended, cleaned file written back
CleanFile ==
  /\ pc = "loop" /\ i <= Len(listing)
  /\ EndsWith(listing[i], T_csv)
  /\ LET o == OutlierStep(disk[listing[i]])
         correct_bool == CorrectBool(o.df)
         cc == ConditionColumns(o.df)
         cats == ConditionCats(o.df, cc)
         row == SummaryRow(listing[i], o.df, cc, cats, correct_bool)
     IN
       /\ ~o.skip
       /\ correct_bool.tag # "raise"
       /\ loc' = [filename |-> listing[i], outcome |-> "ok", rt_outlier |-> o.rt_outlier,
                  database_col |-> cc[1], emotion_col |-> cc[2],
                  correct_bool |-> correct_bool,
                  db_cat |-> cats[1], emo_cat |-> cats[2]]
       /\ summary_rows' = Append(summary_rows, row)
       /\ disk' = [disk EXCEPT ![listing[i]] = o.df]
       /\ io' = Append(io, [op |-> "to_csv", file |-> listing[i]])
  /\ i' = i + 1
  /\ UNCHANGED <<clsVars, runVars>>
  /\ UNCHANGED <<listing, dir, pc, summary_file>>

\* line 155 -> line 58: astype(int) raises, the script ends with a traceback
RaiseInFile ==
  /\ pc = "loop" /\ i <= Len(listing)
  /\ EndsWith(listing[i], T_csv)
  /\ LET o == OutlierStep(disk[listing[i]])
         correct_bool == CorrectBool(o.df)
         cc == ConditionColumns(o.df)
     IN
       /\ ~o.skip
       /\ correct_bool.tag = "raise"
       /\ loc' = [filename |-> listing[i], outcome |-> "raise", rt_outlier |-> o.rt_outlier,
                  database_col |-> cc[1], emotion_col |-> cc[2],
                  correct_bool |-> correct_bool,
                  db_cat |-> <<>>, emo_cat |-> <<>>]
  /\ pc' = "raised"
  /\ UNCHANGED <<clsVars, runVars>>
  /\ UNCHANGED <<listing, dir, disk, i, summary_rows, summary_file, io>>

\* SaveSummary placed inside the loop: it runs as soon as there is a row
SaveSummary_Early ==
  /\ pc = "loop" /\ i > 1
  /\ summary_rows # <<>>
  /\ summary_file' = summary_rows
  /\ io' = Append(io, [op |-> "summary", file |-> <<>>])
  /\ pc' = "done"
  /\ UNCHANGED <<clsVars, runVars>>
  /\ UNCHANGED <<listing, dir, disk, i, summary_rows, loc>>

\* lines 202-206: the summary is saved when there is at least one row
SaveSummary ==
  /\ pc = "loop" /\ i > Len(listing)
  /\ summary_rows # <<>>
  /\ summary_file' = summary_rows
  /\ io' = Append(io, [op |-> "summary", file |-> <<>>])
  /\ pc' = "done"
  /\ UNCHANGED <<clsVars, runVars>>
  /\ UNCHANGED <<listing, dir, disk, i, summary_rows, loc>>

\* lines 203, 208: nothing to save
NoSummary ==
  /\ pc = "loop" /\ i > Len(listing)
  /\ summary_rows = <<>>
  /\ pc' = "done"
  /\ UNCHANGED <<clsVars, runVars>>
  /\ UNCHANGED <<listing, dir, disk, i, summary_rows, summary_file, io, loc>>

Next == IgnoreEntry \/ SkipFile \/ CleanFile \/ RaiseInFile \/ SaveSummary \/ NoSummary

\* ------------------------------------------------------------------------
\* Session files the runs start from
\* ------------------------------------------------------------------------
F_p01 == <<"p","0","1",".","c","s","v">>
F_p02 == <<"p","0","2",".","c","s","v">>
F_p03 == <<"p","0","3",".","c","s","v">>
F_notes == <<"n","o","t","e","s",".","t","x","t">>
N_trial_index == <<"t","r","i","a","l","_","i","n","d","e","x">>
N_resp_key == <<"r","e","s","p","_","k","e","y">>
N_missing_file == <<"m","i","s","s","i","n","g","_","f","i","l","e">>
N_unnamed == <<"U","n","n","a","m","e","d",":"," ","9">>
N_Source == <<"S","o","u","r","c","e">>
N_face_type == <<"f","a","c","e","_","t","y","p","e">>
N_dataset == <<"d","a","t","a","s","e","t">>
N_group == <<"g","r","o","u","p">>
N_emotion == <<"e","m","o","t","i","o","n">>
N_face_expr == <<"f","a","c","e","_","e","x","p","r">>
N_correct == <<"c","o","r","r","e","c","t">>
N_Corr == <<"C","o","r","r">>
N_accuracy == <<"a","c","c","u","r","a","c","y">>
P_src_named == <<Str(<<"A","I">>), Str(<<"N","o","n","-","A","I">>)>>
P_src_inferred == <<Str(<<"a","i","_","g","e","n">>), Str(<<"n","o","n","a","i">>), Str(<<"r","e","a","l">>), Str(<<" ","A","I"," ">>)>>
P_src_dataset == <<Str(<<"N","o","n","-","A","I","-","D","a","t","a","s","e","t">>), Str(<<"A","I","-","D","a","t","a","s","e","t">>), Str(<<"h","u","m","a","n">>), Str(<<"o","t","h","e","r">>), Str(<<"p","l","a","i","n">>)>>
P_src_unknown == <<Str(<<"a","i">>), Str(<<"a","i">>)>>
P_emo_named == <<Str(<<"h","a","p","p","y">>), Str(<<"h","a","p","p","y">>), Str(<<"s","a","d">>)>>
P_emo_inferred == <<Str(<<" ","S","a","d">>), Str(<<"H","a","p","p","y">>), Str(<<"n","e","u","t","r","a","l">>)>>
P_corr_bool == <<Bool(TRUE), Bool(FALSE), Bool(TRUE), Bool(TRUE)>>
P_corr_num01 == <<Num(1), Num(0), Num(1)>>
P_corr_boolna == <<Bool(TRUE), NA, Bool(FALSE)>>
P_corr_text == <<Str(<<"y","e","s">>), Str(<<"n","o">>)>>
P_corr_num01na == <<Num(1), NA, Num(0)>>
P_corr_num012 == <<Num(1), Num(0), Num(2)>>
P_corr_truestr == <<Str(<<"t","R","u","e">>), Str(<<"F","A","L","S","E"," ">>), Str(<<"f","a","l","s","e">>)>>
P_corr_mixed == <<Str(<<"1">>), Str(<<"0">>), Str(<<"n","/","a">>)>>

T_True == <<"T","r","u","e">>
T_False == <<"F","a","l","s","e">>
T_abc == <<"a","b","c">>

\* pd.read_csv type inference for one column: a column holding any text is
\* read as text throughout; all-boolean is bool; numbers and blanks are
\* numeric; booleans with blanks stay objects
ReadColumn(name, cells) ==
  LET anyStr == \E k \in 1..Len(cells) : cells[k].k = "str"
      asText(c) == CASE c.k = "num" -> Str(DigitsOf(c.n))
                     [] c.k = "bool" -> Str(IF c.n = 1 THEN T_True ELSE T_False)
                     [] OTHER -> c
      read == IF anyStr THEN [k \in 1..Len(cells) |-> asText(cells[k])] \o <<>> ELSE cells \o <<>>
      dtype == IF Len(cells) = 0 THEN "object"
               ELSE IF \A k \in 1..Len(cells) : read[k].k = "bool" THEN "bool"
               ELSE IF \A k \in 1..Len(cells) : read[k].k \in {"num", "na"} THEN "num"
               ELSE "object"
  IN [name |-> name, dtype |-> dtype, cells |-> read]

Cycle(pattern, n) == [k \in 1..n |-> pattern[((k - 1) % Len(pattern)) + 1]] \o <<>>

\* reaction times of ordinary trials, in milliseconds, unsorted
BaseRt(k) == 500 + 10 * ((7 * k) % 5)

RtDefects == {"keep", "na", "text", "high", "low", "edge", "lowedge"}

\* an irregular trial: no response, a garbled cell, a very slow or very fast
\* response, and two responses that fall on an IQR bound for some lengths
Defect(d, k) ==
  CASE d = "na" -> NA
    [] d = "text" -> Str(T_abc)
    [] d = "high" -> Num(5000)
    [] d = "low" -> Num(1)
    [] d = "edge" -> Num(585)
    [] d = "lowedge" -> Num(460)
    [] OTHER -> Num(BaseRt(k))

\* n reaction times; the first and the last trial may be irregular
RtCells(n, d1, d2) ==
  [k \in 1..n |-> IF k = 1 THEN Defect(d1, k)
                  ELSE IF k = n THEN Defect(d2, k)
                  ELSE Num(BaseRt(k))] \o <<>>

SrcKinds == {"none", "named", "inferred", "dataset", "unknown"}
EmoKinds == {"none", "named", "inferred"}
CorrKinds == {"none", "bool", "num01", "num01na", "boolna", "boolna1", "text", "num012",
              "truestr", "mixed"}

SrcColumn(kind, n) ==
  CASE kind = "named" -> <<ReadColumn(N_Source, Cycle(P_src_named, n))>>
    [] kind = "inferred" -> <<ReadColumn(N_face_type, Cycle(P_src_inferred, n))>>
    [] kind = "dataset" -> <<ReadColumn(N_dataset, Cycle(P_src_dataset, n))>>
    [] kind = "unknown" -> <<ReadColumn(N_group, Cycle(P_src_unknown, n))>>
    [] OTHER -> <<>>

EmoColumn(kind, n) ==
  CASE kind = "named" -> <<ReadColumn(N_emotion, Cycle(P_emo_named, n))>>
    [] kind = "inferred" -> <<ReadColumn(N_face_expr, Cycle(P_emo_inferred, n))>>
    [] OTHER -> <<>>

CorrColumn(kind, n) ==
  CASE kind = "bool" -> <<ReadColumn(N_correct, Cycle(P_corr_bool, n))>>
    [] kind = "num01" -> <<ReadColumn(N_Corr, Cycle(P_corr_num01, n))>>
    [] kind = "num01na" -> <<ReadColumn(N_Corr, Cycle(P_corr_num01na, n))>>
    [] kind = "boolna" -> <<ReadColumn(N_correct, Cycle(P_corr_boolna, n))>>
    [] kind = "boolna1" -> <<ReadColumn(N_correct,
                               [k \in 1..n |-> IF k = 1 THEN NA ELSE Bool(k % 3 # 0)])>>
    [] kind = "text" -> <<ReadColumn(N_accuracy, Cycle(P_corr_text, n))>>
    [] kind = "num012" -> <<ReadColumn(N_Corr, Cycle(P_corr_num012, n))>>
    [] kind = "truestr" -> <<ReadColumn(N_correct, Cycle(P_corr_truestr, n))>>
    [] kind = "mixed" -> <<ReadColumn(N_correct, Cycle(P_corr_mixed, n))>>
    [] OTHER -> <<>>

\* a raw session log of n trials
SessionTable(n, hasRt, d1, d2, sk, ek, ck) ==
  [cols |->
     <<ReadColumn(N_unnamed, [k \in 1..n |-> Num(k - 1)]),
       ReadColumn(N_trial_index, [k \in 1..n |-> Num(k)])>>
     \o SrcColumn(sk, n) \o EmoColumn(ek, n)
     \o <<ReadColumn(N_resp_key, [k \in 1..n |-> NA])>>
     \o (IF hasRt THEN <<ReadColumn(T_rt, RtCells(n, d1, d2))>> ELSE <<>>)
     \o CorrColumn(ck, n)
     \o <<ReadColumn(N_missing_file, [k \in 1..n |-> Bool(FALSE)])>>]

EmptyDf == [cols |-> <<>>]

\* session files of single-file runs: every shape of the rt column with a
\* few labellings, and every labelling with a few shapes of the rt column
FileTables ==
  {SessionTable(n, TRUE, d1, d2, "named", "named", ck) :
     n \in 0..MaxRows, d1 \in RtDefects, d2 \in {"keep", "na", "high"},
     ck \in {"bool", "boolna1", "num01"}}
  \cup
  {SessionTable(n, TRUE, d[1], d[2], sk, ek, ck) :
     n \in {3, MaxRows}, d \in {<<"keep", "keep">>, <<"na", "keep">>, <<"text", "keep">>,
                                <<"high", "keep">>, <<"na", "na">>},
     sk \in SrcKinds, ek \in EmoKinds, ck \in CorrKinds}
  \cup
  {SessionTable(n, FALSE, "keep", "keep", sk, ek, ck) :
     n \in {0, MaxRows}, sk \in SrcKinds, ek \in EmoKinds, ck \in CorrKinds}

\* session files of batch runs, ten trials each: two missing responses (20%
\* flagged), or one slow response (10% flagged) with or without an
\* identifiable source column and with a clean or a gappy correctness
\* column, or no rt column
BatchTables ==
  {SessionTable(10, TRUE, "na", "na", "named", "named", "bool"),
   SessionTable(10, FALSE, "keep", "keep", "named", "named", "bool")}
  \cup
  {SessionTable(10, TRUE, "high", "keep", sk, "named", ck) :
     sk \in {"named", "unknown"}, ck \in {"bool", "num01na"}}

NamePool == {F_p01, F_p02, F_p03, F_notes}

\* listings of at most n distinct entries
Listings(n, names) ==
  {s \in UNION {[1..k -> names] : k \in 0..n} :
     \A a, b \in 1..Len(s) : a # b => s[a] # s[b]}

InitWith(listings, tables) ==
  /\ listing \in listings
  /\ dir \in [{listing[k] : k \in 1..Len(listing)} -> tables \cup {EmptyDf}]
  /\ \A f \in DOMAIN dir : (dir[f] = EmptyDf) <=> ~EndsWith(f, T_csv)
  /\ disk = dir
  /\ i = 1
  /\ pc = "loop"
  /\ summary_rows = <<>>
  /\ summary_file = <<>>
  /\ io = <<>>
  /\ loc = NoLocals
  /\ image_folder = [exists |-> FALSE, entries |-> {}]
  /\ cpc = "idle"
  /\ todo = <<>>
  /\ ci = 0
  /\ manifest = <<>>
  /\ RunnerIdle

\* a batch of session files
Init == InitWith(Listings(MaxFiles, NamePool), BatchTables)

Spec == Init /\ [][Next]_vars

\* a directory with one entry, over the whole range of session files
InitFile == InitWith(Listings(1, {F_p01, F_notes}), FileTables)

SpecFile == InitFile /\ [][Next]_vars

\* ------------------------------------------------------------------------
\* Filename Classifier (dataset_creation.py)
\* ------------------------------------------------------------------------
T_man == <<"m","a","n">>
T_woman == <<"w","o","m","a","n">>
T_smiling == <<"s","m","i","l","i","n","g">>
T_male == <<"m","a","l","e">>
T_female == <<"f","e","m","a","l","e">>
T_unknown == <<"u","n","k","n","o","w","n">>
T_jpg == <<".","j","p","g">>
T_jpeg == <<".","j","p","e","g">>
T_png == <<".","p","n","g">>

HEADERS ==
  <<<<"f","i","l","e","n","a","m","e">>, <<"s","o","u","r","c","e">>,
    <<"g","e","n","d","e","r">>, <<"e","m","o","t","i","o","n">>>>

\* [a-z0-9]
AlnumSet == {LowerChars[k] : k \in 1..26} \cup DigitSet

\* tokens_from_filename: the maximal runs of [a-z0-9] in the lower-cased stem
tokens_from_filename(filename) ==
  LET base == Lower(SplitExtStem(filename))
  IN {SubSeq(base, a, b) : <<a, b>> \in
        {p \in (1..Len(base)) \X (1..Len(base)) :
           /\ p[1] <= p[2]
           /\ \A k \in p[1]..p[2] : base[k] \in AlnumSet
           /\ (p[1] = 1 \/ base[p[1] - 1] \notin AlnumSet)
           /\ (p[2] = Len(base) \/ base[p[2] + 1] \notin AlnumSet)}}

classify_source(toks) == IF T_ai \in toks THEN T_ai ELSE T_non_ai

\* classify_gender with each prefix test made right after its exact test
classify_gender_PrefixFirst(toks) ==
  IF T_man \in toks THEN T_male
  ELSE IF \E tk \in toks : StartsWith(tk, T_man) THEN T_male
  ELSE IF T_woman \in toks THEN T_female
  ELSE IF \E tk \in toks : StartsWith(tk, T_woman) THEN T_female
  ELSE T_unknown

classify_gender(toks) ==
  IF T_man \in toks THEN T_male
  ELSE IF T_woman \in toks THEN T_female
  ELSE IF \E tk \in toks : StartsWith(tk, T_man) THEN T_male
  ELSE IF \E tk \in toks : StartsWith(tk, T_woman) THEN T_female
  ELSE T_unknown

classify_emotion(toks) ==
  IF T_happy \in toks \/ T_smiling \in toks THEN T_happy
  ELSE IF T_sad \in toks THEN T_sad
  ELSE T_unknown

\* the characters of the alphabet in code-point order
OrdChars ==
  <<" ", "-", ".", "/">> \o DigitChars \o <<":">> \o UpperChars \o <<"_">> \o LowerChars

\* ord(c), up to an increasing renumbering
Ord == [c \in {OrdChars[k] : k \in 1..Len(OrdChars)} |-> IndexIn(c, OrdChars)]

\* a < b for Python str
StrLess(a, b) ==
  \E k \in 1..(Len(b)) :
    /\ \A j \in 1..(k - 1) : j <= Len(a) /\ a[j] = b[j]
    /\ k - 1 <= Len(a)
    /\ (k > Len(a) \/ Ord[a[k]] < Ord[b[k]])

RECURSIVE SortedList(_)
\* sorted(S) for a set of names
SortedList(S) ==
  IF S = {} THEN <<>>
  ELSE LET m == CHOOSE x \in S : \A y \in S \ {x} : StrLess(x, y)
       IN <<m>> \o SortedList(S \ {m})

\* not the image test of line 65: the extension is compared without lower()
IsImageName_CaseSensitive(filename) ==
  EndsWith(filename, T_jpg) \/ EndsWith(filename, T_jpeg) \/ EndsWith(filename, T_png)

\* line 65: filename.lower().endswith((".jpg", ".jpeg", ".png"))
IsImageName(filename) ==
  LET low == Lower(filename)
  IN EndsWith(low, T_jpg) \/ EndsWith(low, T_jpeg) \/ EndsWith(low, T_png)

\* lines 54-58: the image folder does not exist
MainNotFound ==
  /\ cpc = "start"
  /\ ~image_folder.exists
  /\ cpc' = "notfound"
  /\ UNCHANGED <<aggVars, runVars>>
  /\ UNCHANGED <<image_folder, todo, ci, manifest>>

\* lines 60-64: the output is opened, the header written, the listing sorted
MainOpen ==
  /\ cpc = "start"
  /\ image_folder.exists
  /\ manifest' = <<HEADERS>>
  /\ todo' = SortedList(image_folder.entries)
  /\ ci' = 1
  /\ cpc' = "rows"
  /\ UNCHANGED <<aggVars, runVars>>
  /\ UNCHANGED image_folder

\* lines 65-66: an entry that is not an image
MainSkipEntry ==
  /\ cpc = "rows" /\ ci <= Len(todo)
  /\ ~IsImageName(todo[ci])
  /\ ci' = ci + 1
  /\ UNCHANGED <<aggVars, runVars>>
  /\ UNCHANGED <<image_folder, cpc, todo, manifest>>

\* lines 68-73: one manifest row
MainWriteRow ==
  /\ cpc = "rows" /\ ci <= Len(todo)
  /\ IsImageName(todo[ci])
  /\ LET toks == tokens_from_filename(todo[ci])
     IN manifest' = Append(manifest, <<todo[ci], classify_source(toks),
                                       classify_gender(toks), classify_emotion(toks)>>)
  /\ ci' = ci + 1
  /\ UNCHANGED <<aggVars, runVars>>
  /\ UNCHANGED <<image_folder, cpc, todo>>

\* lines 64, 75: the listing is exhausted, the output is closed
MainClose ==
  /\ cpc = "rows" /\ ci > Len(todo)
  /\ cpc' = "done"
  /\ UNCHANGED <<aggVars, runVars>>
  /\ UNCHANGED <<image_folder, todo, ci, manifest>>

NextClassifier == MainNotFound \/ MainOpen \/ MainSkipEntry \/ MainWriteRow \/ MainClose

\* image names: up to MaxTokens tokens joined by "_", and an extension
TokenPool ==
  {<<"A","I">>,
   <<"m","a","n">>,
   <<"W","o","m","a","n">>,
   <<"m","a","n","1","0">>,
   <<"W","o","m","a","n","0","7">>,
   <<"h","a","p","p","y">>,
   <<"S","a","d">>,
   <<"h","u","m","a","n">>}

ExtPool == {<<".","j","p","g">>, <<".","t","x","t">>}

RECURSIVE JoinTokens(_)
JoinTokens(tokens) ==
  IF Len(tokens) = 0 THEN <<>>
  ELSE IF Len(tokens) = 1 THEN tokens[1]
  ELSE tokens[1] \o <<"_">> \o JoinTokens(Tail(tokens))

TokenNames ==
  {JoinTokens(ts) \o e :
     ts \in UNION {[1..n -> TokenPool] : n \in 1..MaxTokens}, e \in ExtPool}

\* entries of a small image folder
FolderNames ==
  {<<"A","I","_","W","o","m","a","n","0","7","_","H","a","p","p","y",".","j","p","g">>,
   <<"r","e","a","l","_","m","a","n","3","_","s","a","d",".","p","n","g">>,
   <<"Z","e","d",".","J","P","G">>,
   <<"a",".","j","p","e","g">>,
   <<"n","o","t","e","s",".","t","x","t">>,
   <<"B","_","x","-","s","m","i","l","i","n","g",".","P","N","G">>,
   <<"x",".","j","p","g",".","b","a","k">>,
   <<".","j","p","g">>,
   <<"i","m","g">>,
   <<"w","o","m","a","n","_","m","a","n","1","0",".","J","p","e","g">>}

InitClassifierWith(folders) ==
  /\ image_folder \in folders
  /\ cpc = "start"
  /\ todo = <<>>
  /\ ci = 0
  /\ manifest = <<>>
  /\ listing = <<>>
  /\ dir = <<>>
  /\ disk = <<>>
  /\ i = 1
  /\ pc = "idle"
  /\ summary_rows = <<>>
  /\ summary_file = <<>>
  /\ io = <<>>
  /\ loc = NoLocals
  /\ RunnerIdle

\* a missing folder, or a folder of at most MaxEntries entries
InitFolder ==
  InitClassifierWith(
    {[exists |-> FALSE, entries |-> {}]} \cup
    {[exists |-> TRUE, entries |-> S] :
       S \in {S \in SUBSET FolderNames : Cardinality(S) <= MaxEntries}})

SpecFolder == InitFolder /\ [][NextClassifier]_vars

\* a missing folder, or a folder with one entry over the whole range of names
InitName ==
  InitClassifierWith(
    {[exists |-> FALSE, entries |-> {}]} \cup
    {[exists |-> TRUE, entries |-> {f}] : f \in TokenNames})

SpecName == InitName /\ [][NextClassifier]_vars

\* ------------------------------------------------------------------------
\* Session Runner (psychopy_exp.py), from the trial loop on
\* ------------------------------------------------------------------------
\* longest trial list of a free run, length of a whole session, and the
\* number of trials a participant of a whole session fails to answer correctly
MaxTrials == 3
SessionTrials == 10
MaxLapses == 1

\* line 38, in milliseconds
MAX_RESP_TIME == 1500

KEY_HAPPY == <<"r","i","g","h","t">>
KEY_SAD == <<"l","e","f","t">>
QUIT_KEYS == {<<"e","s","c","a","p","e">>}

N_filename == <<"f","i","l","e","n","a","m","e">>
N_source == <<"s","o","u","r","c","e">>
N_gender == <<"g","e","n","d","e","r">>
N_participant == <<"p","a","r","t","i","c","i","p","a","n","t">>
N_session == <<"s","e","s","s","i","o","n">>

\* the empty string ""
Empty == Str(<<>>)

\* an entry is the sequence of its addData(name, value) calls
HasField(entry, name) == \E j \in 1..Len(entry) : entry[j][1] = name
Field(entry, name) == entry[CHOOSE j \in 1..Len(entry) : entry[j][1] = name][2]

\* line 253
CorrectEmotion(row) == Lower(Strip(row.emotion))

\* lines 282-287
Correctness(correct_emotion, resp_key) ==
  IF correct_emotion = T_happy THEN Bool(resp_key = KEY_HAPPY)
  ELSE IF correct_emotion = T_sad THEN Bool(resp_key = KEY_SAD)
  ELSE Empty

\* lines 244-249
MissingEntry(t, row) ==
  <<<<N_trial_index, Num(t)>>, <<N_filename, Str(row.filename)>>,
    <<N_missing_file, Bool(TRUE)>>, <<N_resp_key, Empty>>,
    <<T_rt, Empty>>, <<N_correct, Empty>>>>

\* lines 295-303
TrialEntry(t, row, resp_key, rt, correct) ==
  <<<<N_trial_index, Num(t)>>, <<N_filename, Str(row.filename)>>,
    <<N_source, Str(row.source)>>, <<N_gender, Str(row.gender)>>,
    <<N_emotion, Str(CorrectEmotion(row))>>, <<N_resp_key, resp_key>>,
    <<T_rt, rt>>, <<N_correct, correct>>, <<N_missing_file, Bool(FALSE)>>>>

\* lines 263-267: what event.waitKeys can return for trial t: None (<<>>), or
\* the first listed key pressed before MAX_RESP_TIME with its time
WaitKeysReturns(t) ==
  {<<>>} \cup
  {<<key, tm>> : key \in {KEY_HAPPY, KEY_SAD} \cup QUIT_KEYS,
                 tm \in {x \in participant.times[t] : x < MAX_RESP_TIME}}

\* trials logged so far that were not answered correctly
Lapses(l) == Cardinality({k \in 1..Len(l) : Field(l[k], N_correct) = Bool(FALSE)})

\* the column names of the wide table: each name where it was first added
RECURSIVE AddNames(_, _)
AddNames(names, entry) ==
  IF entry = <<>> THEN names
  ELSE AddNames(IF InSeq(Head(entry)[1], names) THEN names
                ELSE Append(names, Head(entry)[1]),
                Tail(entry))

RECURSIVE DataNames(_)
DataNames(l) ==
  IF l = <<>> THEN <<>>
  ELSE AddNames(DataNames(SubSeq(l, 1, Len(l) - 1)), l[Len(l)])

\* a value as a field of the saved file and read back: "" and a name the
\* entry never set are blank, and a blank field is read as missing
CsvCell(entry, name) ==
  IF ~HasField(entry, name) \/ Field(entry, name) = Empty THEN NA
  ELSE Field(entry, name)

\* line 316 (with the extraInfo of line 188), then pd.read_csv
SaveAsWideText(l) ==
  LET names == DataNames(l)
  IN [cols |->
        ([j \in 1..Len(names) |->
            ReadColumn(names[j], [k \in 1..Len(l) |-> CsvCell(l[k], names[j])] \o <<>>)]
           \o <<>>)
        \o <<ReadColumn(N_participant, [k \in 1..Len(l) |-> Num(1)] \o <<>>),
             ReadColumn(N_session, [k \in 1..Len(l) |-> Num(1)] \o <<>>)>>]

AtTrial == rpc = "trial" /\ t_idx <= Len(trials_rows)

\* lines 233-234: escape pressed before the trial
QuitAtTop ==
  /\ AtTrial
  /\ rpc' = "ended"
  /\ UNCHANGED <<aggVars, clsVars>>
  /\ UNCHANGED <<trials_rows, images, participant, t_idx, keys, log, session_csv>>

\* lines 242-251: the image is missing
MissingFileTrial ==
  /\ AtTrial
  /\ trials_rows[t_idx].filename \notin images
  /\ log' = Append(log, MissingEntry(t_idx, trials_rows[t_idx]))
  /\ t_idx' = t_idx + 1
  /\ UNCHANGED <<aggVars, clsVars>>
  /\ UNCHANGED <<trials_rows, images, participant, rpc, keys, session_csv>>

\* lines 253-287, 295-308: a response key was pressed in time
ResponseTrial ==
  /\ AtTrial
  /\ trials_rows[t_idx].filename \in images
  /\ \E got \in WaitKeysReturns(t_idx) :
       /\ got # <<>>
       /\ got[1] \notin QUIT_KEYS
       /\ LET correct == Correctness(CorrectEmotion(trials_rows[t_idx]), got[1]) IN
            /\ correct = Bool(TRUE) \/ Lapses(log) < participant.patience
            /\ log' = Append(log, TrialEntry(t_idx, trials_rows[t_idx],
                                             Str(got[1]), Num(got[2]), correct))
       /\ keys' = [trial |-> t_idx, got |-> got]
  /\ t_idx' = t_idx + 1
  /\ UNCHANGED <<aggVars, clsVars>>
  /\ UNCHANGED <<trials_rows, images, participant, rpc, session_csv>>

\* lines 274-277: escape pressed while the image is up
QuitInTrial ==
  /\ AtTrial
  /\ trials_rows[t_idx].filename \in images
  /\ \E got \in WaitKeysReturns(t_idx) :
       /\ got # <<>>
       /\ got[1] \in QUIT_KEYS
       /\ keys' = [trial |-> t_idx, got |-> got]
  /\ rpc' = "ended"
  /\ UNCHANGED <<aggVars, clsVars>>
  /\ UNCHANGED <<trials_rows, images, participant, t_idx, log, session_csv>>

\* TimeoutTrial that leaves correct at its default ""
TimeoutTrial_CorrectEmpty ==
  /\ AtTrial
  /\ trials_rows[t_idx].filename \in images
  /\ Lapses(log) < participant.patience
  /\ keys' = [trial |-> t_idx, got |-> <<>>]
  /\ log' = Append(log, TrialEntry(t_idx, trials_rows[t_idx], Empty, Empty, Empty))
  /\ t_idx' = t_idx + 1
  /\ UNCHANGED <<aggVars, clsVars>>
  /\ UNCHANGED <<trials_rows, images, participant, rpc, session_csv>>

\* lines 253-273, 288-308: no key within MAX_RESP_TIME
TimeoutTrial ==
  /\ AtTrial
  /\ trials_rows[t_idx].filename \in images
  /\ Lapses(log) < participant.patience
  /\ keys' = [trial |-> t_idx, got |-> <<>>]
  /\ log' = Append(log, TrialEntry(t_idx, trials_rows[t_idx], Empty, Empty, Bool(FALSE)))
  /\ t_idx' = t_idx + 1
  /\ UNCHANGED <<aggVars, clsVars>>
  /\ UNCHANGED <<trials_rows, images, participant, rpc, session_csv>>

\* lines 313-316: after the loop ended or was left, the session is saved
SaveSession ==
  /\ rpc = "ended" \/ (rpc = "trial" /\ t_idx > Len(trials_rows))
  /\ session_csv' = SaveAsWideText(log)
  /\ rpc' = "saved"
  /\ UNCHANGED <<aggVars, clsVars>>
  /\ UNCHANGED <<trials_rows, images, participant, t_idx, keys, log>>

NextRunner ==
  QuitAtTop \/ MissingFileTrial \/ ResponseTrial \/ QuitInTrial \/ TimeoutTrial \/ SaveSession

\* result_database_creation.py lines 65-69: the Results Aggregator is run on
\* a results folder that holds the saved session
AggregateSession ==
  /\ rpc = "saved" /\ pc = "idle"
  /\ log # <<>>
  /\ listing' = <<F_p01>>
  /\ dir' = [f \in {F_p01} |-> session_csv]
  /\ disk' = [f \in {F_p01} |-> session_csv]
  /\ pc' = "loop"
  /\ UNCHANGED <<i, summary_rows, summary_file, io, loc>>
  /\ UNCHANGED <<clsVars, runVars>>

NextSession == NextRunner \/ AggregateSession \/ Next

\* trial k of a stimulus list: sources and emotions alternate at different
\* rates, so that all four conditions occur
StimulusRow(k) ==
  [filename |-> <<"f">> \o DigitsOf(k) \o T_jpg,
   source |-> IF k % 2 = 1 THEN T_ai ELSE T_non_ai,
   gender |-> IF k % 3 = 0 THEN T_male ELSE T_female,
   emotion |-> IF (k \div 2) % 2 = 0 THEN T_happy ELSE T_sad]

StimulusFiles(n) == {StimulusRow(k).filename : k \in 1..n}

\* reaction time of trial t when the participant responds, and a press that
\* comes after the response window
Times(n) == [t \in 1..n |-> {BaseRt(t), MAX_RESP_TIME + 200}]

InitRunnerWith(lists, imagesets, lapses) ==
  /\ trials_rows \in lists
  /\ images \in imagesets
  /\ participant = [times |-> Times(Len(trials_rows)), patience |-> lapses]
  /\ rpc = "trial"
  /\ t_idx = 1
  /\ keys = NoKeys
  /\ log = <<>>
  /\ session_csv = [cols |-> <<>>]
  /\ listing = <<>>
  /\ dir = <<>>
  /\ disk = <<>>
  /\ i = 1
  /\ pc = "idle"
  /\ summary_rows = <<>>
  /\ summary_file = <<>>
  /\ io = <<>>
  /\ loc = NoLocals
  /\ image_folder = [exists |-> FALSE, entries |-> {}]
  /\ cpc = "idle"
  /\ todo = <<>>
  /\ ci = 0
  /\ manifest = <<>>

\* trial lists without repetition of at most n of the first n + 1 stimuli
TrialLists(n) ==
  {s \in UNION {[1..k -> {StimulusRow(j) : j \in 1..(n + 1)}] : k \in 1..n} :
     \A a, b \in 1..Len(s) : a # b => s[a] # s[b]}

\* short runs with every course of events; one image may be missing
InitRunner ==
  InitRunnerWith(TrialLists(MaxTrials),
                 {StimulusFiles(MaxTrials + 1),
                  StimulusFiles(MaxTrials + 1) \ {StimulusRow(2).filename}},
                 MaxTrials)

SpecRunner == InitRunner /\ [][NextRunner]_vars

\* a whole session of a participant who seldom lapses, then aggregated; or a
\* session file of any shape
InitSession ==
  \/ InitRunnerWith({[k \in 1..SessionTrials |-> StimulusRow(k)]},
                    {StimulusFiles(SessionTrials),
                     StimulusFiles(SessionTrials) \ {StimulusRow(3).filename}},
                    MaxLapses)
  \/ InitFile

SpecSession == InitSession /\ [][NextSession]_vars

\* ------------------------------------------------------------------------
\* Properties
\* ------------------------------------------------------------------------
\* the loop is about to handle the session file listing[i]
AtSessionFile == pc = "loop" /\ i <= Len(listing) /\ EndsWith(listing[i], T_csv)

\* number of rows of a raw session file whose reaction time is flagged
FlaggedRows(df) == CountTrue(RtOutlier(ToNumericCells(Col(df, T_rt).cells)))

\* the file has an rt column and more than 10 percent of its rows are flagged
OverTenPercent(df) == HasCol(df, T_rt) /\ 100 * FlaggedRows(df) > 10 * NRows(df)

\* the file has an rt column and exactly 10 percent of its rows are flagged
ExactlyTenPercent(df) ==
  HasCol(df, T_rt) /\ NRows(df) > 0 /\ 100 * FlaggedRows(df) = 10 * NRows(df)

HasOp(op, f) == \E k \in 1..Len(io) : io[k].op = op /\ io[k].file = f

HasRowFor(f) == \E k \in 1..Len(summary_rows) : summary_rows[k].database_name = SplitExtStem(f)

AllNaN(row) == \A c \in Conditions : row.m[c].avg_rt.nan /\ row.m[c].accuracy_pct.nan

\* a column of the frame is named like a candidate, whatever the case
NamedLike(df, candidates) ==
  \E c \in 1..Len(df.cols), k \in 1..Len(candidates) : Lower(df.cols[c].name) = candidates[k]

\* a source column and an emotion column can be identified in the frame
Identifiable(df) ==
  /\ \/ NamedLike(df, db_candidates)
     \/ \E c \in 1..Len(df.cols) : df.cols[c].dtype = "object" /\ IsDatabaseLike(df.cols[c])
  /\ \/ NamedLike(df, emo_candidates)
     \/ \E c \in 1..Len(df.cols) : df.cols[c].dtype = "object" /\ IsEmotionLike(df.cols[c])

\* C1: a session file with an rt column and more than 10% flagged rows is
\* not rewritten and gets no summary row, and the loop goes on with the next
\* entry; a file with 10% or less flagged rows is not skipped.
C1_SkipOverTenPercent ==
  [][(AtSessionFile /\ HasCol(disk[listing[i]], T_rt)) =>
       IF OverTenPercent(disk[listing[i]])
         THEN /\ disk' = disk /\ summary_rows' = summary_rows /\ io' = io
              /\ summary_file' = summary_file
              /\ i' = i + 1 /\ pc' = "loop"
              /\ loc'.outcome = "skip"
         ELSE loc'.outcome # "skip"]_vars

\* a skipped file was followed by a file with exactly 10% flagged rows,
\* which was cleaned and written back
C1_Witness ==
  \E j, k \in 1..Len(listing) :
    /\ j < k /\ k < i
    /\ EndsWith(listing[j], T_csv) /\ OverTenPercent(dir[listing[j]])
    /\ disk[listing[j]] = dir[listing[j]] /\ ~HasRowFor(listing[j])
    /\ EndsWith(listing[k], T_csv) /\ ExactlyTenPercent(dir[listing[k]])
    /\ HasOp("to_csv", listing[k]) /\ HasRowFor(listing[k])

\* C2 as stated: after a batch run the summary has one row for every input
\* session file, skipped files included.
C2_RowForEveryInputFile ==
  pc = "done" =>
    Len(summary_rows) = Cardinality({j \in 1..Len(listing) : EndsWith(listing[j], T_csv)})

\* the session files handled so far that were not skipped
KeptSoFar ==
  {j \in 1..(i - 1) : EndsWith(listing[j], T_csv) /\ ~OverTenPercent(dir[listing[j]])}

\* C2 amended: every session file handled so far contributes exactly one row
\* unless its outlier rate exceeds 10%, in which case it contributes none; a
\* kept file whose condition columns cannot be identified contributes a row
\* with all eight metrics NaN.
C2_RowForEveryKeptFile ==
  /\ Len(summary_rows) = Cardinality(KeptSoFar)
  /\ \A j \in 1..(i - 1) :
       EndsWith(listing[j], T_csv) =>
         IF OverTenPercent(dir[listing[j]])
           THEN ~HasRowFor(listing[j])
           ELSE /\ Cardinality({k \in 1..Len(summary_rows) :
                       summary_rows[k].database_name = SplitExtStem(listing[j])}) = 1
                /\ ~Identifiable(disk[listing[j]]) =>
                     \A k \in 1..Len(summary_rows) :
                       summary_rows[k].database_name = SplitExtStem(listing[j])
                         => AllNaN(summary_rows[k])

\* a finished run with a skipped file and a kept file without condition columns
C2_Witness ==
  /\ pc = "done"
  /\ \E j, k \in 1..Len(listing) :
       /\ EndsWith(listing[j], T_csv) /\ OverTenPercent(dir[listing[j]])
       /\ EndsWith(listing[k], T_csv) /\ ~OverTenPercent(dir[listing[k]])
       /\ ~Identifiable(disk[listing[k]]) /\ HasRowFor(listing[k])

\* C3: a file that is not skipped and has no identifiable source or emotion
\* column gets its all-NaN summary row, is overwritten with its cleaned data,
\* and the run does not raise.
C3_UnidentifiedStillWritten ==
  [][(/\ AtSessionFile
      /\ ~OverTenPercent(disk[listing[i]])
      /\ ~Identifiable(OutlierStep(disk[listing[i]]).df)) =>
       /\ pc' = "loop"
       /\ summary_rows' = Append(summary_rows, EmptyRow(listing[i]))
       /\ disk' = [disk EXCEPT ![listing[i]] = OutlierStep(disk[listing[i]]).df]
       /\ io' = Append(io, [op |-> "to_csv", file |-> listing[i]])]_vars

RECURSIVE KeptNames(_)
\* stems of the session files among the first n entries that are not skipped
KeptNames(n) ==
  IF n = 0 THEN <<>>
  ELSE KeptNames(n - 1) \o
       (IF EndsWith(listing[n], T_csv) /\ ~OverTenPercent(dir[listing[n]])
          THEN <<SplitExtStem(listing[n])>> ELSE <<>>)

\* C4: the summary table is written at most once, after the last entry has
\* been handled and after every cleaned-file write, and it holds one row per
\* file that was not skipped, in processing order.
C4_SummaryOnceAtEnd ==
  LET saves == {k \in 1..Len(io) : io[k].op = "summary"} IN
    /\ Cardinality(saves) <= 1
    /\ \A k \in saves : k = Len(io) /\ i > Len(listing) /\ pc = "done"
    /\ IF saves = {} THEN summary_file = <<>>
       ELSE /\ summary_file = summary_rows
            /\ [k \in 1..Len(summary_file) |-> summary_file[k].database_name] \o <<>>
                 = KeptNames(Len(listing))
            /\ \A k \in 1..Len(summary_file) :
                 \E w \in 1..(Len(io) - 1) :
                   io[w].op = "to_csv" /\ SplitExtStem(io[w].file) = summary_file[k].database_name

\* the summary was written after a file had been skipped and another cleaned
C4_Witness ==
  /\ pc = "done" /\ Len(summary_file) >= 1 /\ Len(io) = Len(summary_file) + 1
  /\ \E j \in 1..Len(listing) : EndsWith(listing[j], T_csv) /\ OverTenPercent(dir[listing[j]])

\* C5: whatever the reaction-time and correctness columns hold, the run never
\* raises.
C5_NeverRaises == pc # "raised"

\* ------------------------------------------------------------------------
\* Properties of one session file
\* ------------------------------------------------------------------------
\* a session file has been handled (skipped, cleaned, or ended in an exception)
Handled == loc.outcome \in {"skip", "ok", "raise"}

\* the raw reaction times of the handled file, coerced to numbers
RawRt == ToNumericCells(Col(dir[loc.filename], T_rt).cells)

\* rows whose coerced reaction time is not missing
ValidRows(rt) == {k \in 1..Len(rt) : rt[k].k = "num"}

\* r-th smallest (r from 0) reaction time among the rows V
KthValid(rt, V, r) ==
  CHOOSE v \in {rt[k].n : k \in V} :
    /\ Cardinality({k \in V : rt[k].n < v}) <= r
    /\ r < Cardinality({k \in V : rt[k].n <= v})

\* 4 * (q-th quartile) of the reaction times of the rows V, linearly interpolated
Quartile4(rt, V, q) ==
  LET h == q * (Cardinality(V) - 1)
  IN (4 - (h % 4)) * KthValid(rt, V, h \div 4)
       + (IF h % 4 = 0 THEN 0 ELSE (h % 4) * KthValid(rt, V, (h \div 4) + 1))

\* C8: a row is flagged iff its coerced reaction time is missing, or there are
\* at least 4 valid reaction times and the row's is strictly below
\* Q1 - 1.5*IQR or strictly above Q3 + 1.5*IQR, the quartiles being those of
\* the valid reaction times only.
C8_FlagIffMissingOrOutsideIQR ==
  (Handled /\ HasCol(dir[loc.filename], T_rt)) =>
    LET rt == RawRt
        V == ValidRows(rt)
        Q1x4 == Quartile4(rt, V, 1)
        Q3x4 == Quartile4(rt, V, 3)
    IN /\ Len(loc.rt_outlier) = Len(rt)
       /\ \A k \in 1..Len(rt) :
            loc.rt_outlier[k] <=>
              \/ rt[k].k = "na"
              \/ /\ Cardinality(V) >= 4
                 /\ \/ 8 * rt[k].n < 2 * Q1x4 - 3 * (Q3x4 - Q1x4)
                    \/ 8 * rt[k].n > 2 * Q3x4 + 3 * (Q3x4 - Q1x4)

\* a file with a missing reaction time, an IQR outlier, and a valid reaction
\* time that is not flagged
C8_Witness ==
  /\ Handled /\ HasCol(dir[loc.filename], T_rt)
  /\ LET rt == RawRt IN
       /\ Cardinality(ValidRows(rt)) >= 4
       /\ \E k \in 1..Len(rt) : rt[k].k = "na" /\ loc.rt_outlier[k]
       /\ \E k \in ValidRows(rt) : loc.rt_outlier[k]
       /\ \E k \in ValidRows(rt) : ~loc.rt_outlier[k]

\* the handled file was cleaned and its condition columns were identified
Summarised ==
  loc.outcome = "ok" /\ loc.database_col # NoneCol /\ loc.emotion_col # NoneCol

\* rows of the raw file that remain after outlier removal
RemainingRows ==
  {k \in 1..NRows(dir[loc.filename]) :
     HasCol(dir[loc.filename], T_rt) => ~loc.rt_outlier[k]}

\* remaining rows of the raw file that belong to condition c
ConditionRows(c) ==
  {k \in RemainingRows :
     /\ normalize_database(LowerStr(Col(dir[loc.filename], loc.database_col).cells[k])) = c[1]
     /\ normalize_emotion(LowerStr(Col(dir[loc.filename], loc.emotion_col).cells[k])) = c[2]}

\* the raw correctness cell reads as true
ReadsTrue(cell) ==
  \/ cell.k \in {"bool", "num"} /\ cell.n = 1
  \/ cell.k = "str" /\ Lower(Strip(cell.s)) \in {T_true, <<"1">>}

\* correct rows of the raw file among S
CorrectRows(S) ==
  {k \in S : ReadsTrue(Col(dir[loc.filename], pick_column(dir[loc.filename], corr_candidates)).cells[k])}

LastRow == summary_rows[Len(summary_rows)]

\* C9: for each of the four conditions, avg_rt is the mean reaction time of
\* the rows remaining after outlier removal whose normalised labels equal the
\* condition, and accuracy_pct is 100 times the fraction of those rows that
\* are correct; avg_rt is missing without an rt column, accuracy_pct without
\* a usable correctness column or when the subset is empty.
C9_MetricsPerCondition ==
  Summarised =>
    \A c \in Conditions :
      LET S == ConditionRows(c)
          avg == LastRow.m[c].avg_rt
          acc == LastRow.m[c].accuracy_pct
      IN /\ IF HasCol(dir[loc.filename], T_rt) /\ S # {}
              THEN /\ ~avg.nan
                   /\ avg.num * Cardinality(S)
                        = avg.den * SumOver([k \in 1..Len(RawRt) |-> RawRt[k].n], S)
              ELSE avg.nan
         /\ IF loc.correct_bool.tag = "series" /\ S # {}
              THEN /\ ~acc.nan
                   /\ acc.num * Cardinality(S) = acc.den * 100 * Cardinality(CorrectRows(S))
              ELSE acc.nan

\* a cleaned file that lost a row as an outlier, has rows in at least two
\* conditions, and has a condition answered partly right
C9_Witness ==
  /\ Summarised /\ HasCol(dir[loc.filename], T_rt)
  /\ \E k \in 1..Len(loc.rt_outlier) : loc.rt_outlier[k]
  /\ \E c, d \in Conditions : c # d /\ ConditionRows(c) # {} /\ ConditionRows(d) # {}
  /\ \E c \in Conditions :
       /\ ~LastRow.m[c].accuracy_pct.nan
       /\ LastRow.m[c].accuracy_pct.num > 0
       /\ LastRow.m[c].accuracy_pct.num < 100 * LastRow.m[c].accuracy_pct.den

\* sub occurs in x
Occurs(x, sub) == \E a \in 0..(Len(x) - Len(sub)) : SubSeq(x, a + 1, a + Len(sub)) = sub

\* the lower-cased source value of row k of the cleaned file
SourceValue(k) == Lower(Strip(PyStr(Col(disk[loc.filename], loc.database_col).cells[k])))

\* C10: a lower-cased source value is normalised to "non-ai" if it contains
\* "non-ai", "nonai", "real" or "human", otherwise to "ai" if it contains
\* "ai", otherwise to None; a value containing "non-ai" or "nonai" is never
\* normalised to "ai".
C10_NonAiBeforeAi ==
  Summarised =>
    /\ Len(loc.db_cat) = NRows(disk[loc.filename])
    /\ \A k \in 1..Len(loc.db_cat) :
         /\ loc.db_cat[k] =
              (IF \E sub \in {T_non_ai, T_nonai, T_real, T_human} : Occurs(SourceValue(k), sub)
                 THEN "non-ai"
               ELSE IF Occurs(SourceValue(k), T_ai) THEN "ai"
               ELSE "None")
         /\ (Occurs(SourceValue(k), T_non_ai) \/ Occurs(SourceValue(k), T_nonai))
              => loc.db_cat[k] # "ai"

\* the value "Non-AI-Dataset" was normalised to "non-ai", next to rows
\* normalised to "ai" and to None
C10_Witness ==
  /\ Summarised
  /\ \E k \in 1..Len(loc.db_cat) :
       /\ SourceValue(k) = <<"n","o","n","-","a","i","-","d","a","t","a","s","e","t">>
       /\ loc.db_cat[k] = "non-ai"
  /\ \E k \in 1..Len(loc.db_cat) : loc.db_cat[k] = "ai"
  /\ \E k \in 1..Len(loc.db_cat) : loc.db_cat[k] = "None"

\* ------------------------------------------------------------------------
\* Properties of the Filename Classifier
\* ------------------------------------------------------------------------
\* C6: classify_gender is "male" if the token set holds the exact token man,
\* otherwise "female" if it holds the exact token woman, otherwise "male" if
\* some token starts with man, otherwise "female" if some token starts with
\* woman, otherwise "unknown"; both exact tests come before either prefix test.
C6_GenderDecisionList ==
  \A r \in 2..Len(manifest) :
    LET toks == tokens_from_filename(manifest[r][1])
        hasPrefix(p) == \E tk \in toks : Len(tk) >= Len(p) /\ \A k \in 1..Len(p) : tk[k] = p[k]
    IN manifest[r][3] =
         (CASE T_man \in toks -> T_male
            [] T_man \notin toks /\ T_woman \in toks -> T_female
            [] {T_man, T_woman} \cap toks = {} /\ hasPrefix(T_man) -> T_male
            [] {T_man, T_woman} \cap toks = {} /\ ~hasPrefix(T_man) /\ hasPrefix(T_woman) -> T_female
            [] OTHER -> T_unknown)

\* a name holding the exact token woman and a token like man10 was classified
\* female
C6_Witness ==
  \E r \in 2..Len(manifest) :
    /\ T_woman \in tokens_from_filename(manifest[r][1])
    /\ \E tk \in tokens_from_filename(manifest[r][1]) : tk # T_man /\ StartsWith(tk, T_man)
    /\ manifest[r][3] = T_female

\* the name ends in .jpg, .jpeg or .png, whatever the case of its letters
ImageExtension(name) ==
  \E e \in {T_jpg, T_jpeg, T_png} :
    /\ Len(name) >= Len(e)
    /\ \A k \in 1..Len(e) : LowerMap[name[Len(name) - Len(e) + k]] = e[k]

ManifestNames == {manifest[r][1] : r \in 2..Len(manifest)}

\* C7: when the image folder exists, the manifest is the fixed header followed
\* by exactly one row for each entry ending (case-insensitively) in .jpg,
\* .jpeg or .png and no row for any other entry, in ascending filename order;
\* a file classified "unknown" still gets its row and nothing fails.
C7_OneRowPerImageSorted ==
  /\ image_folder.exists => cpc # "notfound"
  /\ (image_folder.exists /\ cpc \in {"rows", "done"}) =>
       /\ Len(manifest) >= 1 /\ manifest[1] = HEADERS
       /\ \A r, q \in 2..Len(manifest) : r < q => StrLess(manifest[r][1], manifest[q][1])
       /\ ManifestNames \subseteq {f \in image_folder.entries : ImageExtension(f)}
  /\ (image_folder.exists /\ cpc = "done") =>
       /\ ManifestNames = {f \in image_folder.entries : ImageExtension(f)}
       /\ Len(manifest) = 1 + Cardinality(ManifestNames)

\* a finished run with two rows or more, one of them unknown in gender and
\* emotion, and an entry that got no row
C7_Witness ==
  /\ cpc = "done" /\ Len(manifest) >= 3
  /\ \E r \in 2..Len(manifest) : manifest[r][3] = T_unknown /\ manifest[r][4] = T_unknown
  /\ \E f \in image_folder.entries : f \notin ManifestNames

\* ------------------------------------------------------------------------
\* Properties of the Session Runner
\* ------------------------------------------------------------------------
\* the step is a trial whose image exists and on which no key was pressed
\* within the response window
TimedOutStep ==
  /\ AtTrial
  /\ trials_rows[t_idx].filename \in images
  /\ keys' = [trial |-> t_idx, got |-> <<>>]

\* the entry of a trial whose image existed
ShownEntries == {k \in 1..Len(log) : Field(log[k], N_missing_file) = Bool(FALSE)}

\* the entry of a trial that timed out
TimeoutEntries == {k \in ShownEntries : Field(log[k], N_resp_key) = Empty}

\* C11: a trial whose image exists and on which no key is pressed within the
\* response window is logged with correct = False and with rt and resp_key
\* empty, and the loop goes on to the next trial; on a shown trial correct is
\* never left empty, and rt is set exactly when a key was pressed.
C11_TimeoutLoggedIncorrect ==
  /\ [][TimedOutStep =>
          /\ Len(log') = Len(log) + 1
          /\ SubSeq(log', 1, Len(log)) = log
          /\ Field(log'[Len(log')], N_trial_index) = Num(t_idx)
          /\ Field(log'[Len(log')], N_correct) = Bool(FALSE)
          /\ Field(log'[Len(log')], T_rt) = Empty
          /\ Field(log'[Len(log')], N_resp_key) = Empty
          /\ rpc' = "trial"
          /\ t_idx' = t_idx + 1]_vars
  /\ [](\A k \in ShownEntries :
          /\ Field(log[k], N_correct) \in {Bool(TRUE), Bool(FALSE)}
          /\ (Field(log[k], T_rt) = Empty) <=> (k \in TimeoutEntries)
          /\ k \in TimeoutEntries => Field(log[k], N_correct) = Bool(FALSE))

\* a timed-out trial was logged and the run went on to a trial that was
\* answered
C11_Witness ==
  \E k \in TimeoutEntries :
    /\ keys.trial > k
    /\ k < Len(log)
    /\ Field(log[k], N_correct) = Bool(FALSE)
    /\ Field(log[k], T_rt) = Empty
    /\ Field(log[k + 1], T_rt) # Empty

\* ------------------------------------------------------------------------
\* Properties of a session from the keyboard to the summary
\* ------------------------------------------------------------------------
\* the handled file had an rt column and was cleaned and written back
Cleaned == loc.outcome = "ok" /\ HasCol(dir[loc.filename], T_rt)

\* rows of the file df whose normalised labels are those of condition c
LabelledRows(df, c) ==
  {k \in 1..NRows(df) :
     /\ normalize_database(LowerStr(Col(df, loc.database_col).cells[k])) = c[1]
     /\ normalize_emotion(LowerStr(Col(df, loc.emotion_col).cells[k])) = c[2]}

\* logged trials that were answered, were not flagged, and belong to condition c
AnsweredTrials(c) ==
  {k \in 1..Len(log) :
     /\ Field(log[k], T_rt) # Empty
     /\ ~loc.rt_outlier[k]
     /\ normalize_database(Lower(Strip(Field(log[k], N_source).s))) = c[1]
     /\ normalize_emotion(Lower(Strip(Field(log[k], N_emotion).s))) = c[2]}

\* C12: every row of a cleaned file has a numeric reaction time; every row
\* whose reaction time was missing has been removed, and the metrics are
\* those of the rows of the cleaned file; so the timed-out and missing-file
\* trials of the Session Runner are removed, and accuracy_pct is the share of
\* correct answers among the answered trials alone.
C12_NoMissingRtInCleanedFile ==
  Cleaned =>
    LET raw == dir[loc.filename]
        out == disk[loc.filename]
        rt == RawRt
    IN /\ \A k \in 1..NRows(out) : Col(out, T_rt).cells[k].k = "num"
       /\ \A k \in 1..Len(rt) : rt[k].k = "na" => loc.rt_outlier[k]
       /\ NRows(out) = NRows(raw) - CountTrue(loc.rt_outlier)
       /\ Summarised =>
            \A c \in Conditions :
              LET S == LabelledRows(out, c)
                  avg == LastRow.m[c].avg_rt
                  acc == LastRow.m[c].accuracy_pct
                  corr == pick_column(out, corr_candidates)
              IN /\ IF S # {}
                      THEN /\ ~avg.nan
                           /\ avg.num * Cardinality(S)
                                = avg.den * SumOver([k \in 1..NRows(out) |->
                                                       Col(out, T_rt).cells[k].n], S)
                      ELSE avg.nan
                 /\ IF loc.correct_bool.tag = "series" /\ S # {}
                      THEN /\ ~acc.nan
                           /\ acc.num * Cardinality(S)
                                = acc.den * 100
                                    * Cardinality({k \in S : ReadsTrue(Col(out, corr).cells[k])})
                      ELSE acc.nan
       /\ rpc = "saved" =>
            /\ \A k \in 1..Len(log) : Field(log[k], T_rt) = Empty => loc.rt_outlier[k]
            /\ Summarised /\ loc.correct_bool.tag = "series"
            /\ \A c \in Conditions :
                 LET A == AnsweredTrials(c)
                     acc == LastRow.m[c].accuracy_pct
                 IN IF A = {} THEN acc.nan
                    ELSE /\ ~acc.nan
                         /\ acc.num * Cardinality(A)
                              = acc.den * 100
                                  * Cardinality({k \in A : Field(log[k], N_correct) = Bool(TRUE)})

\* a session with a timed-out trial was cleaned, and the condition of that
\* trial has an accuracy of 100
C12_Witness ==
  /\ rpc = "saved" /\ Cleaned /\ Summarised
  /\ \E k \in TimeoutEntries :
       /\ loc.rt_outlier[k]
       /\ \E c \in Conditions :
            /\ normalize_database(Lower(Strip(Field(log[k], N_source).s))) = c[1]
            /\ normalize_emotion(Lower(Strip(Field(log[k], N_emotion).s))) = c[2]
            /\ ~LastRow.m[c].accuracy_pct.nan
            /\ LastRow.m[c].accuracy_pct.num = 100 * LastRow.m[c].accuracy_pct.den

====
